---- MODULE Spec2Model ----
(***************************************************************************)
(* Model of src/telegram_hashtag_bot.py: the per-chat survey state machine *)
(* (start_cmd, restart_cmd, message_handler, send_round_prompt), the two   *)
(* validators (normalize_participant_id, parse_hashtag) and the CSV store  *)
(* (ensure_csv_header, save_row).                                          *)
(*                                                                         *)
(* A Python str is a sequence of one-character strings; None is the empty  *)
(* sequence, which neither validator ever returns as an accepted value.    *)
(***************************************************************************)
EXTENDS Integers, Sequences, FiniteSets, TLC

VARIABLES user_state,    \* chat_id -> UserState, the module's dict
          csv_exists,    \* os.path.exists(CSV_PATH)
          csv_rows,      \* what CSV_PATH holds
          replies,       \* the reply_text calls of the last handler run
          lastEvent,     \* the last update handled and the session it met
          afterRestart,  \* chats whose last /restart no text has followed
          prompts,       \* the list PROMPTS as customized for the run
          raw,           \* a text handed to the validators on their own
          validated,     \* what the two validators made of raw
          appended,      \* the rows whose save_row call has returned
          writers,       \* save_row calls in progress, step by step
          handlers       \* handler runs suspended at a reply_text await

\* The variables of the flow, and those only the other specifications move.
flow == <<user_state, csv_exists, csv_rows, replies, lastEvent, afterRestart>>

others == <<prompts, raw, validated, appended, writers, handlers>>

vars == <<flow, others>>

(***************************************************************************)
(* Bounds of the model.                                                    *)
(***************************************************************************)
\* Most data chunks (rows or truncated rows) ever written after the header.
MaxRows == 3

(***************************************************************************)
(* Characters and strings.                                                 *)
(***************************************************************************)
None == <<>>

LowerCase == <<"a","b","c","d","e","f","g","h","i","j","k","l","m",
               "n","o","p","q","r","s","t","u","v","w","x","y","z">>

UpperCase == <<"A","B","C","D","E","F","G","H","I","J","K","L","M",
               "N","O","P","Q","R","S","T","U","V","W","X","Y","Z">>

Range(s) == {s[i] : i \in 1..Len(s)}

AsciiDigits == {"0","1","2","3","4","5","6","7","8","9"}

AsciiLetters == Range(LowerCase) \cup Range(UpperCase)

\* A decimal digit outside ASCII (ARABIC-INDIC DIGIT THREE), written by its
\* code point: Python's \d matches every Unicode decimal digit in a str pattern.
UnicodeDigits == {"U+0663"}

\* What \d matches.
DecimalDigits == AsciiDigits \cup UnicodeDigits

\* What [A-Za-z0-9] matches.
AsciiAlnum == AsciiLetters \cup AsciiDigits

\* The characters str.strip() removes: space, tab, newline, no-break space.
WhiteSpace == {" ", "\t", "\n", "U+00A0"}

\* The upper-case form of each lower-case letter.
UpperOf ==
  [ch \in Range(LowerCase) |->
      UpperCase[CHOOSE i \in 1..Len(LowerCase) : LowerCase[i] = ch]]

\* str.upper() on one character.
upper_char(ch) == IF ch \in DOMAIN UpperOf THEN UpperOf[ch] ELSE ch

upper(t) == [i \in 1..Len(t) |-> upper_char(t[i])]

RECURSIVE lstrip(_)
lstrip(t) ==
  IF t # <<>> /\ Head(t) \in WhiteSpace THEN lstrip(Tail(t)) ELSE t

RECURSIVE rstrip(_)
rstrip(t) ==
  IF t # <<>> /\ t[Len(t)] \in WhiteSpace
  THEN rstrip(SubSeq(t, 1, Len(t) - 1))
  ELSE t

strip(t) == rstrip(lstrip(t))

(***************************************************************************)
(* Validators.                                                             *)
(***************************************************************************)
\* PID_PATTERN.fullmatch(t): ^P?\d{2,4}$ with re.IGNORECASE.
PID_PATTERN_fullmatch(t) ==
  LET digits == IF t # <<>> /\ Head(t) \in {"P", "p"} THEN Tail(t) ELSE t
  IN  /\ Len(digits) >= 2
      /\ Len(digits) <= 4
      /\ \A i \in 1..Len(digits) : digits[i] \in DecimalDigits

\* HASHTAG_PATTERN.fullmatch(t): ^[A-Za-z0-9]+$.
HASHTAG_PATTERN_fullmatch(t) ==
  /\ Len(t) >= 1
  /\ \A i \in 1..Len(t) : t[i] \in AsciiAlnum

normalize_participant_id(text) ==
  LET t == strip(text)
  IN  IF t = <<>> THEN None
      ELSE IF ~PID_PATTERN_fullmatch(t) THEN None
      ELSE LET u == upper(t)
           IN  IF Head(u) # "P" THEN <<"P">> \o u ELSE u

\* parse_hashtag that removes every leading "#", not just one.
RECURSIVE parse_hashtag_StripsAllHashes(_)
parse_hashtag_StripsAllHashes(text) ==
  IF text = <<>> THEN None
  ELSE LET t == strip(text)
       IN  IF t = <<>> THEN None
           ELSE IF Head(t) = "#" /\ Len(t) > 1 /\ t[2] = "#"
                THEN parse_hashtag_StripsAllHashes(Tail(t))
                ELSE LET h == IF Head(t) = "#" THEN Tail(t) ELSE t
                     IN  IF " " \in Range(h) THEN None
                         ELSE IF ~HASHTAG_PATTERN_fullmatch(h) THEN None
                         ELSE h

parse_hashtag(text) ==
  IF text = <<>> THEN None
  ELSE LET t == strip(text)
       IN  IF t = <<>> THEN None
           ELSE LET h == IF Head(t) = "#" THEN Tail(t) ELSE t
                IN  IF " " \in Range(h) THEN None
                    ELSE IF ~HASHTAG_PATTERN_fullmatch(h) THEN None
                    ELSE h

(***************************************************************************)
(* Configuration and reply texts.                                          *)
(***************************************************************************)
PROMPTS == << "Please submit a short hashtag response.",
              "Please submit another short hashtag response.",
              "Please submit another short hashtag response." >>

\* len(PROMPTS), of the list in effect.
PROMPT_COUNT == Len(prompts)

\* A reply is the sequence of pieces its text is concatenated from.
INTRO_TEXT == <<"Starting the game now.">>

DONE_TEXT == <<"All done. Thank you!">>

INVALID_HASHTAG_TEXT ==
  <<"Please reply with a single hashtag-style word using only letters and numbers.\nNo spaces. Example: #breakingnews">>

INVALID_CODE_TEXT ==
  <<"That does not look like a valid participant code.\nPlease enter something like P014 (letters + numbers only).">>

WELCOME_TEXT ==
  <<"Welcome. Please enter your participant code to begin (example: P014).\nDo not enter your name or any personal info.">>

RESTARTED_TEXT ==
  <<"Restarted. Please enter your participant code to begin (example: P014).">>

WITHDREW_TEXT ==
  <<"You previously withdrew. If this is a mistake, contact the research team.">>

\* f"{prompt}\nReply with a hashtag (example: #breakingnews)."
PromptReply(prompt) == <<prompt, "\nReply with a hashtag (example: #breakingnews).">>

(***************************************************************************)
(* Session state.                                                          *)
(***************************************************************************)
ChatIds == {1, 2}

UserState == [participant_id |-> None, round_idx |-> 0,
              awaiting_hashtag |-> FALSE, withdrawn |-> FALSE]

\* get_state(chat_id) as a read: the stored state, or the blank one it creates.
get_state(chat_id) ==
  IF chat_id \in DOMAIN user_state THEN user_state[chat_id] ELSE UserState

\* user_state after get_state(chat_id) and the handler's writes through it.
put_state(chat_id, state) ==
  [c \in DOMAIN user_state \cup {chat_id} |->
      IF c = chat_id THEN state ELSE user_state[c]]

(***************************************************************************)
(* The CSV store.  The file is the sequence of chunks written to it.       *)
(***************************************************************************)
CSV_HEADER == [kind |-> "header",
               cells |-> <<"unix_time", "participant_id", "round_index",
                           "hashtag", "prompt">>]

\* What a header write that raised leaves in the new file: a strict prefix of
\* the header line, possibly an empty one.
PARTIAL_HEADER == [kind |-> "partial_header"]

\* What a row write that raised part-way leaves: a non-empty strict prefix of
\* the row's line.
PARTIAL_ROW == [kind |-> "partial_row"]

\* The readings of time.time(); its value plays no part in the flow.
Times == {"time.time()"}

\* Where an OSError may strike inside save_row; "none" is the run without one.
Faults == {"none", "header_open", "header_write", "append_open", "row_write"}

HeaderFaults == {"header_open", "header_write"}

\* ensure_csv_header without the os.path.exists test: it always opens with "w".
ensure_csv_header_Truncates(fs) ==
  [exists |-> TRUE, rows |-> <<CSV_HEADER>>]

\* ensure_csv_header(path) on the file fs = [exists, rows].
ensure_csv_header(fs) ==
  IF fs.exists THEN fs
  ELSE [exists |-> TRUE, rows |-> <<CSV_HEADER>>]

\* ensure_csv_header(path) when open() or the header write raises OSError.
ensure_csv_header_fault(fs, fault) ==
  CASE fault = "header_open"  -> fs
    [] fault = "header_write" -> [exists |-> TRUE, rows |-> <<PARTIAL_HEADER>>]

\* save_row: [raised, fs] after the call, under the given fault.
save_row(fs, participant_id, round_idx, hashtag, now, fault) ==
  IF ~fs.exists /\ fault \in HeaderFaults
  THEN [raised |-> TRUE, fs |-> ensure_csv_header_fault(fs, fault)]
  ELSE LET fs1 == ensure_csv_header(fs)
       IN  IF round_idx >= Len(prompts)
           THEN [raised |-> TRUE, fs |-> fs1]          \* IndexError
           ELSE LET prompt_text == prompts[round_idx + 1]
                    row == [kind |-> "row", unix_time |-> now,
                            participant_id |-> participant_id,
                            round_index |-> round_idx,
                            hashtag |-> hashtag, prompt |-> prompt_text]
                IN  CASE fault = "append_open" -> [raised |-> TRUE, fs |-> fs1]
                      [] fault = "row_write" ->
                           [raised |-> TRUE,
                            fs |-> [fs1 EXCEPT !.rows = Append(@, PARTIAL_ROW)]]
                      [] OTHER ->
                           [raised |-> FALSE,
                            fs |-> [fs1 EXCEPT !.rows = Append(@, row)]]

\* The faults that can strike a save_row call on file fs.
ApplicableFaults(fs) ==
  IF fs.exists THEN Faults \ HeaderFaults ELSE Faults

(***************************************************************************)
(* Flow.  Each operator returns the handler's outcome: the session state   *)
(* it leaves, the replies it sent, the file, and whether it raised.        *)
(***************************************************************************)
\* send_round_prompt without line 139: a finished session awaits a hashtag.
send_round_prompt_AlwaysAwaits(state) ==
  IF state.round_idx >= Len(prompts)
  THEN [state |-> [state EXCEPT !.awaiting_hashtag = TRUE],
        reply |-> DONE_TEXT]
  ELSE [state |-> [state EXCEPT !.awaiting_hashtag = TRUE],
        reply |-> PromptReply(prompts[state.round_idx + 1])]

\* send_round_prompt(update, state): [state, reply].
send_round_prompt(state) ==
  IF state.round_idx >= Len(prompts)
  THEN [state |-> [state EXCEPT !.awaiting_hashtag = FALSE],
        reply |-> DONE_TEXT]
  ELSE [state |-> [state EXCEPT !.awaiting_hashtag = TRUE],
        reply |-> PromptReply(prompts[state.round_idx + 1])]

\* start_cmd clearing the participant code as restart_cmd does.
start_cmd_body_ClearsCode(state) ==
  IF state.withdrawn
  THEN [state |-> state, replies |-> <<WITHDREW_TEXT>>]
  ELSE [state |-> [state EXCEPT !.participant_id = None, !.round_idx = 0,
                                !.awaiting_hashtag = FALSE],
        replies |-> <<WELCOME_TEXT>>]

start_cmd_body(state) ==
  IF state.withdrawn
  THEN [state |-> state, replies |-> <<WITHDREW_TEXT>>]
  ELSE [state |-> [state EXCEPT !.round_idx = 0, !.awaiting_hashtag = FALSE],
        replies |-> <<WELCOME_TEXT>>]

\* restart_cmd without line 186: awaiting_hashtag is not cleared.
restart_cmd_body_KeepsAwaiting(state) ==
  IF state.withdrawn
  THEN [state |-> state, replies |-> <<WITHDREW_TEXT>>]
  ELSE [state |-> [state EXCEPT !.participant_id = None, !.round_idx = 0],
        replies |-> <<RESTARTED_TEXT>>]

\* restart_cmd without line 185: the round is not reset.
restart_cmd_body_KeepsRound(state) ==
  IF state.withdrawn
  THEN [state |-> state, replies |-> <<WITHDREW_TEXT>>]
  ELSE [state |-> [state EXCEPT !.participant_id = None,
                                !.awaiting_hashtag = FALSE],
        replies |-> <<RESTARTED_TEXT>>]

\* restart_cmd without line 184: the participant code is not cleared.
restart_cmd_body_KeepsCode(state) ==
  IF state.withdrawn
  THEN [state |-> state, replies |-> <<WITHDREW_TEXT>>]
  ELSE [state |-> [state EXCEPT !.round_idx = 0, !.awaiting_hashtag = FALSE],
        replies |-> <<RESTARTED_TEXT>>]

restart_cmd_body(state) ==
  IF state.withdrawn
  THEN [state |-> state, replies |-> <<WITHDREW_TEXT>>]
  ELSE [state |-> [state EXCEPT !.participant_id = None, !.round_idx = 0,
                                !.awaiting_hashtag = FALSE],
        replies |-> <<RESTARTED_TEXT>>]

\* collect_code answering a bad code with the bad-hashtag text.
collect_code_WrongReply(state, fs, text) ==
  LET pid == normalize_participant_id(text)
  IN  IF pid = None
      THEN [state |-> state, fs |-> fs, raised |-> FALSE,
            replies |-> <<INVALID_HASHTAG_TEXT>>]
      ELSE LET p == send_round_prompt([state EXCEPT !.participant_id = pid])
           IN  [state |-> p.state, fs |-> fs, raised |-> FALSE,
                replies |-> <<INTRO_TEXT, p.reply>>]

\* collect_code storing the text as typed instead of the normalized code.
collect_code_StoresRawText(state, fs, text) ==
  LET pid == normalize_participant_id(text)
  IN  IF pid = None
      THEN [state |-> state, fs |-> fs, raised |-> FALSE,
            replies |-> <<INVALID_CODE_TEXT>>]
      ELSE LET p == send_round_prompt([state EXCEPT !.participant_id = text])
           IN  [state |-> p.state, fs |-> fs, raised |-> FALSE,
                replies |-> <<INTRO_TEXT, p.reply>>]

\* message_handler, STEP 1: the text is taken as a participant code.
collect_code(state, fs, text) ==
  LET pid == normalize_participant_id(text)
  IN  IF pid = None
      THEN [state |-> state, fs |-> fs, raised |-> FALSE,
            replies |-> <<INVALID_CODE_TEXT>>]
      ELSE LET p == send_round_prompt([state EXCEPT !.participant_id = pid])
           IN  [state |-> p.state, fs |-> fs, raised |-> FALSE,
                replies |-> <<INTRO_TEXT, p.reply>>]

\* Without "state.round_idx += 1".
advance_round_KeepsRound(state) ==
  [state EXCEPT !.awaiting_hashtag = FALSE]

\* The round advanced by two.
advance_round_ByTwo(state) ==
  [state EXCEPT !.round_idx = @ + 2, !.awaiting_hashtag = FALSE]

\* "state.round_idx += 1; state.awaiting_hashtag = False"
advance_round(state) ==
  [state EXCEPT !.round_idx = @ + 1, !.awaiting_hashtag = FALSE]

\* collect_hashtag saving the text as typed instead of the cleaned token.
collect_hashtag_SavesRawText(state, fs, text, now, fault) ==
  LET cleaned == parse_hashtag(text)
  IN  IF cleaned = None
      THEN [state |-> state, fs |-> fs, raised |-> FALSE,
            replies |-> <<INVALID_HASHTAG_TEXT>>]
      ELSE LET w == save_row(fs, state.participant_id, state.round_idx,
                             text, now, fault)
               s1 == advance_round(state)
           IN  IF w.raised
               THEN [state |-> state, fs |-> w.fs, raised |-> TRUE,
                     replies |-> <<>>]
               ELSE IF s1.round_idx >= Len(prompts)
               THEN [state |-> s1, fs |-> w.fs, raised |-> FALSE,
                     replies |-> <<DONE_TEXT>>]
               ELSE LET p == send_round_prompt(s1)
                    IN  [state |-> p.state, fs |-> w.fs, raised |-> FALSE,
                         replies |-> <<p.reply>>]

\* collect_hashtag advancing the round before it calls save_row, so that a
\* failed save leaves the round advanced.
collect_hashtag_AdvancesFirst(state, fs, text, now, fault) ==
  LET cleaned == parse_hashtag(text)
  IN  IF cleaned = None
      THEN [state |-> state, fs |-> fs, raised |-> FALSE,
            replies |-> <<INVALID_HASHTAG_TEXT>>]
      ELSE LET w == save_row(fs, state.participant_id, state.round_idx,
                             cleaned, now, fault)
               s1 == advance_round(state)
           IN  IF w.raised
               THEN [state |-> s1, fs |-> w.fs, raised |-> TRUE,
                     replies |-> <<>>]
               ELSE IF s1.round_idx >= Len(prompts)
               THEN [state |-> s1, fs |-> w.fs, raised |-> FALSE,
                     replies |-> <<DONE_TEXT>>]
               ELSE LET p == send_round_prompt(s1)
                    IN  [state |-> p.state, fs |-> w.fs, raised |-> FALSE,
                         replies |-> <<p.reply>>]

\* message_handler, Step 2: the text is taken as a hashtag response.  An
\* exception of save_row leaves the handler at once: nothing after it runs.
collect_hashtag(state, fs, text, now, fault) ==
  LET cleaned == parse_hashtag(text)
  IN  IF cleaned = None
      THEN [state |-> state, fs |-> fs, raised |-> FALSE,
            replies |-> <<INVALID_HASHTAG_TEXT>>]
      ELSE LET w == save_row(fs, state.participant_id, state.round_idx,
                             cleaned, now, fault)
               s1 == advance_round(state)
           IN  IF w.raised
               THEN [state |-> state, fs |-> w.fs, raised |-> TRUE,
                     replies |-> <<>>]
               ELSE IF s1.round_idx >= Len(prompts)
               THEN [state |-> s1, fs |-> w.fs, raised |-> FALSE,
                     replies |-> <<DONE_TEXT>>]
               ELSE LET p == send_round_prompt(s1)
                    IN  [state |-> p.state, fs |-> w.fs, raised |-> FALSE,
                         replies |-> <<p.reply>>]

\* The fallback sending the prompt without marking the session as awaiting.
reprompt_KeepsState(state, fs) ==
  LET p == send_round_prompt(state)
  IN  [state |-> state, fs |-> fs, raised |-> FALSE, replies |-> <<p.reply>>]

\* message_handler, fallback: re-prompt the current round.
reprompt(state, fs) ==
  LET p == send_round_prompt(state)
  IN  [state |-> p.state, fs |-> fs, raised |-> FALSE, replies |-> <<p.reply>>]

\* message_handler past its first guard, on the message text msg.
message_handler_body(state, fs, msg, now, fault) ==
  LET text == strip(msg)
  IN  IF state.participant_id = None THEN collect_code(state, fs, text)
      ELSE IF state.awaiting_hashtag
           THEN collect_hashtag(state, fs, text, now, fault)
           ELSE reprompt(state, fs)

\* Whether message_handler reaches save_row on this state and text.
CallsSaveRow(state, msg) ==
  /\ state.participant_id # None
  /\ state.awaiting_hashtag
  /\ parse_hashtag(strip(msg)) # None

(***************************************************************************)
(* The message texts the chats send.                                       *)
(***************************************************************************)
Texts == { <<"p","1","4">>,              \* a participant code and a hashtag
           <<" ","#","p","1","4">>,      \* a hashtag, not a participant code
           <<"a"," ","b">> }             \* neither

File == [exists |-> csv_exists, rows |-> csv_rows]

IsData(chunk) == chunk.kind \in {"row", "partial_row"}

DataChunks == Len(SelectSeq(csv_rows, IsData))

\* The update handled, the session as the handler found it, whether the chat
\* was in afterRestart then, and whether the handler raised.
Event(kind, chat_id, msg, raised) ==
  [kind |-> kind, chat_id |-> chat_id, text |-> msg, raised |-> raised,
   before |-> get_state(chat_id), after_restart |-> chat_id \in afterRestart]

(***************************************************************************)
(* State machine: the dispatcher runs one handler at a time to completion. *)
(***************************************************************************)
\* The state of the parts a specification leaves idle.
NotValidated == [done |-> FALSE, pid |-> None, tag |-> None]

\* No session yet, no file yet, nothing handled yet.
BlankFlow ==
  /\ user_state = <<>>
  /\ csv_exists = FALSE
  /\ csv_rows = <<>>
  /\ replies = <<>>
  /\ lastEvent = [kind |-> "init", chat_id |-> 0, text |-> <<>>,
                  raised |-> FALSE, before |-> UserState,
                  after_restart |-> FALSE]
  /\ afterRestart = {}

Init ==
  /\ prompts = PROMPTS
  /\ raw = <<>>
  /\ validated = NotValidated
  /\ appended = <<>>
  /\ writers = <<>>
  /\ handlers = <<>>
  /\ BlankFlow

start_cmd(chat_id) ==
  LET r == start_cmd_body(get_state(chat_id))
  IN  /\ user_state' = put_state(chat_id, r.state)
      /\ replies' = r.replies
      /\ lastEvent' = Event("start", chat_id, <<>>, FALSE)
      /\ UNCHANGED <<csv_exists, csv_rows, afterRestart, others>>

restart_cmd(chat_id) ==
  LET r == restart_cmd_body(get_state(chat_id))
  IN  /\ user_state' = put_state(chat_id, r.state)
      /\ replies' = r.replies
      /\ lastEvent' = Event("restart", chat_id, <<>>, FALSE)
      /\ afterRestart' = IF get_state(chat_id).withdrawn
                         THEN afterRestart
                         ELSE afterRestart \cup {chat_id}
      /\ UNCHANGED <<csv_exists, csv_rows, others>>

message_handler(chat_id, msg, now, fault) ==
  /\ CallsSaveRow(get_state(chat_id), msg) => DataChunks < MaxRows
  /\ IF CallsSaveRow(get_state(chat_id), msg)
     THEN fault \in ApplicableFaults(File)
     ELSE fault = "none"
  /\ UNCHANGED others
  /\ IF msg = <<>>
     THEN \* "if not update.message or not update.message.text: return"
          /\ replies' = <<>>
          /\ lastEvent' = Event("ignored", chat_id, msg, FALSE)
          /\ UNCHANGED <<user_state, csv_exists, csv_rows, afterRestart>>
     ELSE LET r == message_handler_body(get_state(chat_id), File, msg, now, fault)
          IN  /\ user_state' = put_state(chat_id, r.state)
              /\ csv_exists' = r.fs.exists
              /\ csv_rows' = r.fs.rows
              /\ replies' = r.replies
              /\ lastEvent' = Event("text", chat_id, msg, r.raised)
              /\ afterRestart' = afterRestart \ {chat_id}

Next ==
  \/ \E chat_id \in ChatIds : start_cmd(chat_id)
  \/ \E chat_id \in ChatIds : restart_cmd(chat_id)
  \/ \E chat_id \in ChatIds, msg \in Texts, now \in Times, fault \in Faults :
        message_handler(chat_id, msg, now, fault)

Spec == Init /\ [][Next]_vars

(***************************************************************************)
(* The same machine when the PROMPTS list ("Customize rounds here") is the *)
(* shipped one or has been emptied.                                        *)
(***************************************************************************)
InitCustom ==
  /\ prompts \in {PROMPTS, <<>>}
  /\ raw = <<>>
  /\ validated = NotValidated
  /\ appended = <<>>
  /\ writers = <<>>
  /\ handlers = <<>>
  /\ BlankFlow

SpecCustom == InitCustom /\ [][Next]_vars

(***************************************************************************)
(* The handlers when the dispatcher runs updates concurrently on the event *)
(* loop: a handler runs until an await that suspends it.  Every handler    *)
(* but one makes all its reads and writes of the session before its first  *)
(* reply_text; message_handler on a valid participant code writes          *)
(* participant_id, is suspended in "await reply_text(INTRO_TEXT)", and on  *)
(* resuming calls send_round_prompt on the same UserState object.          *)
(* handlers[chat_id] counts the handlers suspended there.                  *)
(***************************************************************************)
MaxSuspended == 1

\* Whether message_handler takes msg as a valid participant code.
EntersCode(state, msg) ==
  /\ msg # <<>>
  /\ state.participant_id = None
  /\ normalize_participant_id(strip(msg)) # None

InitConcurrent ==
  /\ prompts = PROMPTS
  /\ raw = <<>>
  /\ validated = NotValidated
  /\ appended = <<>>
  /\ writers = <<>>
  /\ handlers = [chat_id \in ChatIds |-> 0]
  /\ BlankFlow

\* Lines 214-240: up to the suspension in "await reply_text(INTRO_TEXT)".
code_entry_begin(chat_id, msg) ==
  /\ EntersCode(get_state(chat_id), msg)
  /\ handlers[chat_id] < MaxSuspended
  /\ user_state' = put_state(chat_id,
         [get_state(chat_id) EXCEPT
            !.participant_id = normalize_participant_id(strip(msg))])
  /\ replies' = <<INTRO_TEXT>>
  /\ lastEvent' = Event("text", chat_id, msg, FALSE)
  /\ afterRestart' = afterRestart \ {chat_id}
  /\ handlers' = [handlers EXCEPT ![chat_id] = @ + 1]
  /\ UNCHANGED <<csv_exists, csv_rows, prompts, raw, validated, appended,
                 writers>>

\* Lines 243-244: the suspended handler resumes with send_round_prompt.
code_entry_resume(chat_id) ==
  LET p == send_round_prompt(get_state(chat_id))
  IN  /\ handlers[chat_id] > 0
      /\ user_state' = put_state(chat_id, p.state)
      /\ replies' = <<p.reply>>
      /\ lastEvent' = Event("resumed", chat_id, <<>>, FALSE)
      /\ handlers' = [handlers EXCEPT ![chat_id] = @ - 1]
      /\ UNCHANGED <<csv_exists, csv_rows, afterRestart, prompts, raw,
                     validated, appended, writers>>

\* message_handler on any other text: no suspension between its accesses.
other_text(chat_id, msg, now) ==
  /\ ~EntersCode(get_state(chat_id), msg)
  /\ message_handler(chat_id, msg, now, "none")

NextConcurrent ==
  \/ \E chat_id \in ChatIds : start_cmd(chat_id)
  \/ \E chat_id \in ChatIds : restart_cmd(chat_id)
  \/ \E chat_id \in ChatIds, msg \in Texts : code_entry_begin(chat_id, msg)
  \/ \E chat_id \in ChatIds : code_entry_resume(chat_id)
  \/ \E chat_id \in ChatIds, msg \in Texts, now \in Times :
        other_text(chat_id, msg, now)

SpecConcurrent == InitConcurrent /\ [][NextConcurrent]_vars

(***************************************************************************)
(* The store on its own: one caller makes ensure_csv_header and save_row   *)
(* calls one after the other, each returning before the next starts.  The  *)
(* file is absent at first, or is what an earlier run's first call left.   *)
(***************************************************************************)
\* The participant codes and tokens the caller passes to save_row.
StorePids == { <<"P","1","4">>, <<"P","0","7">> }

StoreTokens == { <<"p","1","4">> }

StoreRounds == 0..(Len(PROMPTS) - 1)

\* The call just made, in the shape of lastEvent.
StoreCall(kind) ==
  [kind |-> kind, chat_id |-> 0, text |-> <<>>, raised |-> FALSE,
   before |-> UserState, after_restart |-> FALSE]

InitStore ==
  /\ prompts = PROMPTS
  /\ raw = <<>>
  /\ validated = NotValidated
  /\ appended = <<>>
  /\ writers = <<>>
  /\ handlers = <<>>
  /\ user_state = <<>>
  /\ csv_exists \in BOOLEAN
  /\ csv_rows = IF csv_exists THEN <<CSV_HEADER>> ELSE <<>>
  /\ replies = <<>>
  /\ lastEvent = StoreCall("init")
  /\ afterRestart = {}

StoreEnsure ==
  LET fs == ensure_csv_header(File)
  IN  /\ csv_exists' = fs.exists
      /\ csv_rows' = fs.rows
      /\ lastEvent' = StoreCall("ensure_csv_header")
      /\ UNCHANGED <<user_state, replies, afterRestart, others>>

StoreAppend(participant_id, round_idx, hashtag, now) ==
  LET w == save_row(File, participant_id, round_idx, hashtag, now, "none")
  IN  /\ Len(appended) < MaxRows
      /\ csv_exists' = w.fs.exists
      /\ csv_rows' = w.fs.rows
      /\ appended' = Append(appended,
                            [kind |-> "row", unix_time |-> now,
                             participant_id |-> participant_id,
                             round_index |-> round_idx, hashtag |-> hashtag,
                             prompt |-> PROMPTS[round_idx + 1]])
      /\ lastEvent' = StoreCall("save_row")
      /\ UNCHANGED <<user_state, replies, afterRestart,
                     prompts, raw, validated, writers, handlers>>

NextStore ==
  \/ StoreEnsure
  \/ \E participant_id \in StorePids, round_idx \in StoreRounds,
        hashtag \in StoreTokens, now \in Times :
        StoreAppend(participant_id, round_idx, hashtag, now)

SpecStore == InitStore /\ [][NextStore]_vars

(***************************************************************************)
(* save_row called by several callers at once, each for its own session.   *)
(* A call is three steps: the os.path.exists test of ensure_csv_header,    *)
(* the header creation with open(CSV_PATH, "w") that the test may lead to, *)
(* and the row append with open(CSV_PATH, "a").  writers[w] is where       *)
(* caller w stands in its call.                                            *)
(***************************************************************************)
WriterIds == {1, 2, 3}

\* The participant code of each caller's session.
WriterPids == << <<"P","1","4">>, <<"P","0","7">>, <<"P","2","1">> >>

\* The row caller w appends: its session's first response.
WriterRow(w) ==
  [kind |-> "row", unix_time |-> "time.time()",
   participant_id |-> WriterPids[w], round_index |-> 0,
   hashtag |-> <<"p","1","4">>, prompt |-> PROMPTS[1]]

InitWriters ==
  /\ prompts = PROMPTS
  /\ raw = <<>>
  /\ validated = NotValidated
  /\ appended = <<>>
  /\ writers = [w \in WriterIds |-> "called"]
  /\ handlers = <<>>
  /\ user_state = <<>>
  /\ csv_exists \in BOOLEAN
  /\ csv_rows = IF csv_exists THEN <<CSV_HEADER>> ELSE <<>>
  /\ replies = <<>>
  /\ lastEvent = StoreCall("init")
  /\ afterRestart = {}

\* "if os.path.exists(CSV_PATH): return"
exists_check(w) ==
  /\ writers[w] = "called"
  /\ writers' = [writers EXCEPT ![w] = IF csv_exists THEN "append" ELSE "create"]
  /\ UNCHANGED <<flow, prompts, raw, validated, appended, handlers>>

\* open(CSV_PATH, "w") empties the file, then the header row is written.
header_create(w) ==
  /\ writers[w] = "create"
  /\ csv_exists' = TRUE
  /\ csv_rows' = <<CSV_HEADER>>
  /\ writers' = [writers EXCEPT ![w] = "append"]
  /\ UNCHANGED <<user_state, replies, lastEvent, afterRestart,
                 prompts, raw, validated, appended, handlers>>

\* open(CSV_PATH, "a") and writerow.
row_append(w) ==
  /\ writers[w] = "append"
  /\ csv_exists' = TRUE
  /\ csv_rows' = Append(csv_rows, WriterRow(w))
  /\ appended' = Append(appended, WriterRow(w))
  /\ writers' = [writers EXCEPT ![w] = "done"]
  /\ UNCHANGED <<user_state, replies, lastEvent, afterRestart,
                 prompts, raw, validated, handlers>>

NextWriters ==
  \/ \E w \in WriterIds : exists_check(w)
  \/ \E w \in WriterIds : header_create(w)
  \/ \E w \in WriterIds : row_append(w)

SpecWriters == InitWriters /\ [][NextWriters]_vars

(***************************************************************************)
(* The validators on their own: any short text over an alphabet with the   *)
(* prefix letter in both cases, an ASCII digit, a non-ASCII decimal digit, *)
(* a space and "#", handed to normalize_participant_id and parse_hashtag.  *)
(***************************************************************************)
MaxLen == 5

Alphabet == {"P", "p", "1", "U+0663", " ", "#"}

RawTexts == UNION { [1..n -> Alphabet] : n \in 0..MaxLen }

InitValidators ==
  /\ prompts = PROMPTS
  /\ raw \in RawTexts
  /\ validated = NotValidated
  /\ appended = <<>>
  /\ writers = <<>>
  /\ handlers = <<>>
  /\ BlankFlow

Validate ==
  /\ ~validated.done
  /\ validated' = [done |-> TRUE,
                   pid |-> normalize_participant_id(raw),
                   tag |-> parse_hashtag(raw)]
  /\ UNCHANGED <<flow, prompts, raw, appended, writers, handlers>>

NextValidators == Validate

SpecValidators == InitValidators /\ [][NextValidators]_vars

(***************************************************************************)
(* Properties.                                                             *)
(***************************************************************************)
\* The step handles a text message of chat c.
TextStep(c) == lastEvent'.kind = "text" /\ lastEvent'.chat_id = c

\* The step handles the given command of chat c.
CommandStep(c, kind) == lastEvent'.kind = kind /\ lastEvent'.chat_id = c

FileUnchanged == csv_rows' = csv_rows /\ csv_exists' = csv_exists

\* The file once it is sure to have been created.
Created == IF csv_exists THEN csv_rows ELSE <<CSV_HEADER>>

\* The states of the flow, read off the session's fields.
AwaitingCode(s) == s.participant_id = None

AwaitingResponse(s) == s.participant_id # None /\ s.awaiting_hashtag

BetweenRounds(s) ==
  s.participant_id # None /\ ~s.awaiting_hashtag /\ s.round_idx < PROMPT_COUNT

Complete(s) == s.round_idx = PROMPT_COUNT

\* The record of a response of session state s with the given token.
ResponseRecord(s, token, now) ==
  [kind |-> "row", unix_time |-> now, participant_id |-> s.participant_id,
   round_index |-> s.round_idx, hashtag |-> token,
   prompt |-> prompts[s.round_idx + 1]]

\* C1: in every reachable state, a session without a participant code is at
\* round 0 and does not await a response.
C1_NoCodeMeansRoundZero ==
  \A c \in ChatIds :
    get_state(c).participant_id = None
      => get_state(c).round_idx = 0 /\ get_state(c).awaiting_hashtag = FALSE

\* A /restart met a session awaiting the response of round 2 and cleared it.
C1_Witness ==
  /\ lastEvent.kind = "restart"
  /\ lastEvent.before.round_idx = 2
  /\ lastEvent.before.awaiting_hashtag
  /\ get_state(lastEvent.chat_id).participant_id = None

\* A step of session c that persisted a record for the round s was at.
PersistedFor(c, s) ==
  /\ TextStep(c)
  /\ Len(csv_rows') > Len(csv_rows)
  /\ csv_rows'[Len(csv_rows')].kind = "row"
  /\ csv_rows'[Len(csv_rows')].participant_id = s.participant_id
  /\ csv_rows'[Len(csv_rows')].round_index = s.round_idx

\* C2 as stated: every step leaves each session's round_idx unchanged or
\* raises it by exactly 1, and raises it only when it persisted a record for
\* the old round; no step lowers it.
C2_RoundOnlyIncreases ==
  [][\A c \in ChatIds :
       \/ get_state(c)'.round_idx = get_state(c).round_idx
       \/ /\ get_state(c)'.round_idx = get_state(c).round_idx + 1
          /\ PersistedFor(c, get_state(c))]_vars

\* C2 as amended: a step leaves round_idx unchanged, or raises it by exactly
\* 1 having persisted a record for the old round, or is a /start or /restart
\* of that non-withdrawn session, which resets it to 0.
C2_RoundIncreasesOrResets ==
  [][\A c \in ChatIds :
       \/ get_state(c)'.round_idx = get_state(c).round_idx
       \/ /\ get_state(c)'.round_idx = get_state(c).round_idx + 1
          /\ PersistedFor(c, get_state(c))
       \/ /\ get_state(c)'.round_idx = 0
          /\ CommandStep(c, "start") \/ CommandStep(c, "restart")
          /\ ~get_state(c).withdrawn]_vars

\* A response moved a session from round 1 to round 2.
C2_Witness ==
  /\ lastEvent.kind = "text"
  /\ ~lastEvent.raised
  /\ lastEvent.before.round_idx = 1
  /\ get_state(lastEvent.chat_id).round_idx = 2

\* C3: an accepted response whose save succeeds appends exactly the record
\* (participant code, round, stripped token, prompt of the round) and raises
\* round_idx by 1; /start, /restart, code entry, a rejected text and a
\* re-prompt leave the file as it was.
C3_OneRecordPerPersistedResponse ==
  [][\A c \in ChatIds :
       /\ ( /\ TextStep(c)
            /\ AwaitingResponse(get_state(c))
            /\ parse_hashtag(lastEvent'.text) # None
            /\ ~lastEvent'.raised )
          => /\ \E now \in Times :
                  csv_rows' = Append(Created,
                                     ResponseRecord(get_state(c),
                                                    parse_hashtag(lastEvent'.text),
                                                    now))
             /\ get_state(c)'.round_idx = get_state(c).round_idx + 1
       /\ ( \/ CommandStep(c, "start")
            \/ CommandStep(c, "restart")
            \/ TextStep(c) /\ ~AwaitingResponse(get_state(c))
            \/ TextStep(c) /\ parse_hashtag(lastEvent'.text) = None )
          => FileUnchanged]_vars

\* The response to round 1 was saved after the response to round 0.
C3_Witness ==
  /\ lastEvent.kind = "text"
  /\ ~lastEvent.raised
  /\ AwaitingResponse(lastEvent.before)
  /\ lastEvent.before.round_idx = 1
  /\ Len(csv_rows) = 3
  /\ csv_rows[3].kind = "row"
  /\ csv_rows[3].round_index = 1

\* The text is rejected by the validator a session in state s applies.
RejectedText(s, msg) ==
  \/ AwaitingCode(s) /\ normalize_participant_id(msg) = None
  \/ AwaitingResponse(s) /\ parse_hashtag(msg) = None

\* C4: a text that fails validation leaves the session's four fields and the
\* file unchanged and is answered by exactly one message, the bad-code text
\* while a code is awaited and the different bad-response text otherwise.
C4_RejectionChangesNothing ==
  [][\A c \in ChatIds :
       (TextStep(c) /\ RejectedText(get_state(c), lastEvent'.text))
         => /\ get_state(c)' = get_state(c)
            /\ FileUnchanged
            /\ Len(replies') = 1
            /\ replies'[1] = IF AwaitingCode(get_state(c))
                             THEN INVALID_CODE_TEXT
                             ELSE INVALID_HASHTAG_TEXT
            /\ INVALID_CODE_TEXT # INVALID_HASHTAG_TEXT]_vars

\* A session awaiting the response of round 1 was sent a malformed response.
C4_Witness ==
  /\ lastEvent.kind = "text"
  /\ AwaitingResponse(lastEvent.before)
  /\ lastEvent.before.round_idx = 1
  /\ parse_hashtag(lastEvent.text) = None
  /\ replies = <<INVALID_HASHTAG_TEXT>>

\* C5 as stated: when save_row fails on an accepted response, the session is
\* unchanged and the file holds no new row and no partially written row.
C5_FailedAppendLeavesNoTrace ==
  [][\A c \in ChatIds :
       (TextStep(c) /\ lastEvent'.raised)
         => /\ get_state(c)' = get_state(c)
            /\ SelectSeq(csv_rows', IsData) = SelectSeq(csv_rows, IsData)]_vars

\* C6 as stated: every /start, /restart and text message is answered by at
\* least one reply, the text whose save failed included.
C6_EveryEventIsAnswered ==
  lastEvent.kind \in {"start", "restart", "text"} => Len(replies) >= 1

\* C7: in every reachable state every session has 0 <= round_idx <= PROMPT_COUNT.
C7_RoundWithinPrompts ==
  \A c \in ChatIds :
    get_state(c).round_idx >= 0 /\ get_state(c).round_idx <= PROMPT_COUNT

\* A session answered its last prompt and stands at PROMPT_COUNT.
C7_Witness ==
  /\ lastEvent.kind = "text"
  /\ lastEvent.before.round_idx = PROMPT_COUNT - 1
  /\ get_state(lastEvent.chat_id).round_idx = PROMPT_COUNT

\* C8: a text sent to a session at round PROMPT_COUNT is answered by the
\* completion message alone, leaves the file as it was and leaves round_idx
\* and awaiting_hashtag unchanged.
C8_CompleteStaysComplete ==
  [][\A c \in ChatIds :
       (TextStep(c) /\ Complete(get_state(c)))
         => /\ replies' = <<DONE_TEXT>>
            /\ FileUnchanged
            /\ get_state(c)'.round_idx = get_state(c).round_idx
            /\ get_state(c)'.awaiting_hashtag = get_state(c).awaiting_hashtag]_vars

\* A finished session was sent a text that is a well-formed hashtag.
C8_Witness ==
  /\ lastEvent.kind = "text"
  /\ Complete(lastEvent.before)
  /\ parse_hashtag(lastEvent.text) # None
  /\ replies = <<DONE_TEXT>>

\* C9 as stated: a text sent to a session between rounds re-emits the prompt
\* of the round, appends nothing and leaves the session unchanged.
C9_RepromptLeavesSession ==
  [][\A c \in ChatIds :
       (TextStep(c) /\ BetweenRounds(get_state(c)))
         => /\ replies' = <<PromptReply(prompts[get_state(c).round_idx + 1])>>
            /\ FileUnchanged
            /\ get_state(c)' = get_state(c)]_vars

\* C9 as amended: a text sent to a session between rounds re-emits the prompt
\* of the round, appends nothing, leaves participant_id, round_idx and
\* withdrawn unchanged and sets awaiting_hashtag, so that the session awaits
\* the response of that round afterwards.
C9_RepromptAwaitsResponse ==
  [][\A c \in ChatIds :
       (TextStep(c) /\ BetweenRounds(get_state(c)))
         => /\ replies' = <<PromptReply(prompts[get_state(c).round_idx + 1])>>
            /\ FileUnchanged
            /\ get_state(c)' = [get_state(c) EXCEPT !.awaiting_hashtag = TRUE]
            /\ AwaitingResponse(get_state(c)')]_vars

\* A session holding a code was sent a text between rounds.
C9_Witness ==
  /\ lastEvent.kind = "text"
  /\ BetweenRounds(lastEvent.before)
  /\ AwaitingResponse(get_state(lastEvent.chat_id))

\* C10: a /restart of a non-withdrawn session clears participant_id, sets
\* round_idx to 0 and awaiting_hashtag to false; the next text of that chat
\* is taken as a participant code: it appends nothing, and the session's code
\* afterwards is what normalize_participant_id makes of the text.
C10_RestartThenCodeEntry ==
  [][\A c \in ChatIds :
       /\ (CommandStep(c, "restart") /\ ~get_state(c).withdrawn)
            => /\ get_state(c)' = [get_state(c) EXCEPT !.participant_id = None,
                                                       !.round_idx = 0,
                                                       !.awaiting_hashtag = FALSE]
               /\ c \in afterRestart'
       /\ (TextStep(c) /\ c \in afterRestart)
            => /\ FileUnchanged
               /\ get_state(c)'.participant_id
                    = normalize_participant_id(lastEvent'.text)
               /\ replies'[1] = IF normalize_participant_id(lastEvent'.text) = None
                                THEN INVALID_CODE_TEXT
                                ELSE INTRO_TEXT]_vars

\* After a /restart in mid-study, the chat's next text was a well-formed
\* hashtag that is no participant code.
C10_Witness ==
  /\ lastEvent.kind = "text"
  /\ lastEvent.after_restart
  /\ parse_hashtag(lastEvent.text) # None
  /\ normalize_participant_id(lastEvent.text) = None
  /\ \E i \in 1..Len(csv_rows) : csv_rows[i].kind = "row"
  /\ DOMAIN user_state = {lastEvent.chat_id}

C12_CodeEntryStartsRoundZero ==
  [][\A c \in ChatIds :
       ( /\ TextStep(c)
         /\ AwaitingCode(get_state(c))
         /\ normalize_participant_id(lastEvent'.text) # None )
         => /\ get_state(c)'.participant_id
                 = normalize_participant_id(lastEvent'.text)
            /\ get_state(c)'.round_idx = 0
            /\ FileUnchanged
            /\ IF PROMPT_COUNT = 0
               THEN /\ Complete(get_state(c)')
                    /\ ~get_state(c)'.awaiting_hashtag
                    /\ replies' = <<INTRO_TEXT, DONE_TEXT>>
               ELSE /\ AwaitingResponse(get_state(c)')
                    /\ replies' = <<INTRO_TEXT, PromptReply(prompts[1])>>]_vars

\* With the shipped prompts, a chat entered its code after a /restart.
C12_Witness ==
  /\ lastEvent.kind = "text"
  /\ lastEvent.after_restart
  /\ AwaitingCode(lastEvent.before)
  /\ PROMPT_COUNT = 3
  /\ AwaitingResponse(get_state(lastEvent.chat_id))
  /\ get_state(lastEvent.chat_id).participant_id = <<"P", "1", "4">>
  /\ replies = <<INTRO_TEXT, PromptReply(PROMPTS[1])>>

\* With no prompts, a chat entered its code and was told the study is done.
C12_WitnessNoPrompts ==
  /\ lastEvent.kind = "text"
  /\ AwaitingCode(lastEvent.before)
  /\ PROMPT_COUNT = 0
  /\ Complete(get_state(lastEvent.chat_id))
  /\ get_state(lastEvent.chat_id).participant_id = <<"P", "1", "4">>
  /\ replies = <<INTRO_TEXT, DONE_TEXT>>

\* s is t or a beginning of t.
IsPrefix(s, t) == Len(s) <= Len(t) /\ SubSeq(t, 1, Len(s)) = s

\* C13: with one caller whose calls return one after the other, after every
\* call the file is the header row once followed by the rows appended so
\* far, in call order; what the file held before the call is a beginning of
\* what it holds after; and ensure_csv_header on an existing file changes
\* nothing.
C13_HeaderOnceThenRowsInOrder ==
  [][ /\ csv_exists'
      /\ csv_rows' = <<CSV_HEADER>> \o appended'
      /\ IsPrefix(csv_rows, csv_rows')
      /\ (lastEvent'.kind = "ensure_csv_header" /\ csv_exists) => FileUnchanged
      /\ lastEvent'.kind = "save_row"
           => /\ Len(appended') = Len(appended) + 1
              /\ csv_rows'[Len(csv_rows')] = appended'[Len(appended')] ]_vars

\* ensure_csv_header was called on a file that already held two rows.
C13_Witness ==
  /\ lastEvent.kind = "ensure_csv_header"
  /\ Len(appended) = 2
  /\ appended[1] # appended[2]
  /\ csv_rows = <<CSV_HEADER>> \o appended

\* A participant code in canonical form: "P" and then 2 to 4 digits 0-9.
Canonical(pid) ==
  /\ Len(pid) \in 3..5
  /\ pid[1] = "P"
  /\ \A i \in 2..Len(pid) : pid[i] \in AsciiDigits

\* C14 as stated: every data row in the dataset is a whole row with a
\* canonical participant code, a round index from 0 to PROMPT_COUNT - 1, a
\* non-empty token of ASCII letters and digits, and the prompt of its round.
C14_EveryDataRowWellFormed ==
  \A i \in 1..Len(csv_rows) :
    IsData(csv_rows[i])
      => /\ csv_rows[i].kind = "row"
         /\ Canonical(csv_rows[i].participant_id)
         /\ csv_rows[i].round_index \in 0..(PROMPT_COUNT - 1)
         /\ csv_rows[i].hashtag # <<>>
         /\ Range(csv_rows[i].hashtag) \subseteq AsciiAlnum
         /\ csv_rows[i].prompt = prompts[csv_rows[i].round_index + 1]

\* text without its leading and trailing white space.
Trimmed(text) ==
  LET solid == {i \in 1..Len(text) : text[i] \notin WhiteSpace}
  IN  IF solid = {} THEN <<>>
      ELSE SubSeq(text,
                  CHOOSE i \in solid : \A j \in solid : i <= j,
                  CHOOSE i \in solid : \A j \in solid : i >= j)

\* C15 as stated, with the digits 0-9 that "P + 2-4 digits (01..9999)" means:
\* normalize_participant_id returns "P" and the input's digits exactly when
\* the trimmed input is an optional "P" or "p" and then 2 to 4 digits, and
\* rejects every other input.
C15_CodeIsPAndAsciiDigits ==
  validated.done
    => LET t == Trimmed(raw)
           d == IF t # <<>> /\ t[1] \in {"P", "p"} THEN Tail(t) ELSE t
       IN  validated.pid = IF Len(d) \in 2..4 /\ Range(d) \subseteq AsciiDigits
                           THEN <<"P">> \o d
                           ELSE None

\* C16: parse_hashtag accepts exactly when the trimmed input, less at most
\* one leading "#", is non-empty and made of ASCII letters and digits only,
\* and it returns that remaining token; everything else it rejects.
C16_TokenIsTrimmedHashFreeAlnum ==
  validated.done
    => LET t == Trimmed(raw)
           k == IF t # <<>> /\ t[1] = "#" THEN Tail(t) ELSE t
       IN  validated.tag = IF k # <<>> /\ Range(k) \subseteq AsciiAlnum
                           THEN k
                           ELSE None

\* A padded text with one leading "#" was accepted as its bare token.
C16_Witness ==
  /\ validated.done
  /\ raw = <<" ", "#", "p", "1", " ">>
  /\ validated.tag = <<"p", "1">>

\* C17 as stated: with handlers for one chat interleaving at their
\* reply_text suspension points, each handler has its session to itself from
\* its first access to its last write, so that no update is lost and a
\* session without a participant code never awaits a response.
C17_NoCodeNeverAwaitsWhenInterleaved ==
  \A c \in ChatIds :
    get_state(c).participant_id = None => ~get_state(c).awaiting_hashtag

\* How many times chunk occurs in the file.
Occurrences(chunk) == Cardinality({i \in 1..Len(csv_rows) : csv_rows[i] = chunk})

\* C18 as stated: however the exists tests, header creations and row appends
\* of concurrent save_row calls interleave, once all calls have returned the
\* file starts with the header, holds it exactly once, and holds every
\* appended row exactly once.
C18_NoRowLostToHeaderCreation ==
  (\A w \in WriterIds : writers[w] = "done")
    => /\ csv_rows[1] = CSV_HEADER
       /\ Occurrences(CSV_HEADER) = 1
       /\ \A w \in WriterIds : Occurrences(WriterRow(w)) = 1

\* The text passes the validator a session in state s applies to it.
ValidText(s, msg) ==
  IF AwaitingCode(s)
  THEN normalize_participant_id(msg) # None
  ELSE parse_hashtag(msg) # None

\* How far a session is from Complete: an upper bound on the valid texts it
\* still takes.
Rank(s) ==
  IF Complete(s) THEN 0
  ELSE IF AwaitingCode(s) THEN 2 * PROMPT_COUNT + 2
  ELSE 2 * (PROMPT_COUNT - s.round_idx) + (IF s.awaiting_hashtag THEN 0 ELSE 1)

\* C19: a valid text whose append (if any) succeeded, handled for a session
\* that is not withdrawn and not Complete, brings the session strictly nearer
\* to Complete, so a run of such texts ends in Complete after at most
\* 2 * PROMPT_COUNT + 2 of them; a response appends the row of the current
\* round and moves to the next round, so the rows' round indices are
\* consecutive; Complete is entered only by the response to round
\* PROMPT_COUNT - 1, and that response is answered by the completion message.
C19_ValidTextsLeadToComplete ==
  [][\A c \in ChatIds :
       ( /\ TextStep(c)
         /\ ~lastEvent'.raised
         /\ ~get_state(c).withdrawn
         /\ ~Complete(get_state(c))
         /\ ValidText(get_state(c), lastEvent'.text) )
         => /\ Rank(get_state(c)') \in 0..(Rank(get_state(c)) - 1)
            /\ ~get_state(c)'.withdrawn
            /\ IF AwaitingResponse(get_state(c))
               THEN /\ PersistedFor(c, get_state(c))
                    /\ get_state(c)'.round_idx = get_state(c).round_idx + 1
               ELSE /\ FileUnchanged
                    /\ get_state(c)'.round_idx = get_state(c).round_idx
            /\ Complete(get_state(c)')
                 <=> ( /\ AwaitingResponse(get_state(c))
                       /\ get_state(c).round_idx = PROMPT_COUNT - 1 )
            /\ Complete(get_state(c)') => replies' = <<DONE_TEXT>>]_vars

\* One session went through all rounds: its rows for rounds 0, 1 and 2 are in
\* the file and the last response was answered by the completion message.
C19_Witness ==
  /\ lastEvent.kind = "text"
  /\ ~lastEvent.raised
  /\ AwaitingResponse(lastEvent.before)
  /\ Complete(get_state(lastEvent.chat_id))
  /\ replies = <<DONE_TEXT>>
  /\ Len(csv_rows) = PROMPT_COUNT + 1
  /\ \A i \in 1..PROMPT_COUNT :
       /\ csv_rows[i + 1].kind = "row"
       /\ csv_rows[i + 1].round_index = i - 1
       /\ csv_rows[i + 1].participant_id = lastEvent.before.participant_id

\* C20: in every reachable state, with one update handled at a time, a
\* session that awaits a response has a participant code and a round below
\* PROMPT_COUNT; so a Complete session never awaits a response.
C20_AwaitingHasCodeAndRound ==
  \A c \in ChatIds :
    get_state(c).awaiting_hashtag
      => /\ get_state(c).participant_id # None
         /\ get_state(c).round_idx < PROMPT_COUNT
         /\ ~Complete(get_state(c))

\* One session awaits the response of the last round while another, prompted
\* again after a /start, awaits the response of round 0.
C20_Witness ==
  \E c \in ChatIds :
    /\ lastEvent.kind = "text"
    /\ lastEvent.chat_id = c
    /\ BetweenRounds(lastEvent.before)
    /\ get_state(c).awaiting_hashtag
    /\ get_state(c).participant_id # None
    /\ get_state(c).round_idx = 0
    /\ \E d \in ChatIds : get_state(d).round_idx = PROMPT_COUNT - 1
                          /\ get_state(d).awaiting_hashtag

====
